---- MODULE Spec2Model ----
(***************************************************************************)
(* Model of ci_scripts/ci_tools.py: the configuration reader (configparser *)
(* behind read_configuration / _get_value), the process-environment        *)
(* helpers and the console command runner.                                 *)
(*                                                                         *)
(* A configuration value is a sequence of tokens: DQ is the double-quote   *)
(* character, "a" and "b" are ordinary characters, and a placeholder token *)
(* "${key}" is the extended-interpolation reference to another key.        *)
(***************************************************************************)
EXTENDS Integers, Sequences, FiniteSets, TLC

VARIABLES major, file, environ, lastSet, handles, last

vars == <<major, file, environ, lastSet, handles, last>>

-----------------------------------------------------------------------------
(* Bounds of the model.                                                    *)

MaxLen == 3          \* longest stored value drawn for the varied slots
MaxHandles == 2      \* most file handles left open at once
MaxExit == 2         \* largest exit status a command is given

\* configparser.MAX_INTERPOLATION_DEPTH, used by ExtendedInterpolation
MAX_INTERPOLATION_DEPTH == 10

-----------------------------------------------------------------------------
(* Vocabulary.                                                             *)

DQ == "dq"
Placeholders == {"${version}", "${description}"}
Tokens == {DQ, "a"} \cup Placeholders

RefKey(tok) == IF tok = "${version}" THEN "version" ELSE "description"

Absent == <<"<absent>">>
Unset == "<unset>"

DEFAULTSECT == "DEFAULT"
PACKAGE == "package"
Sections == {DEFAULTSECT, PACKAGE}
Keys == {"name", "version", "description", "homepage", "app"}
\* Variant: the summary also asks for the app key.
PackageKeysWithApp == <<"name", "version", "description", "homepage", "app">>

PackageKeys == <<"name", "version", "description", "homepage">>

Names == {"A", "B"}
Vals == {"x", "y"}

Pythons == {2, 3}

RECURSIVE SeqsUpTo(_, _)
SeqsUpTo(S, n) ==
  IF n = 0 THEN {<<>>}
  ELSE LET shorter == SeqsUpTo(S, n - 1)
       IN shorter \cup {Append(s, t) : s \in shorter, t \in S}

Values == SeqsUpTo(Tokens, MaxLen)

-----------------------------------------------------------------------------
(* The configuration files the calls are run against.                      *)

Quoted(c) == <<DQ, c, DQ>>

MkFile(status, pkg, opt) == [status |-> status, pkg |-> pkg, opt |-> opt]

\* Every combination of present and absent keys: [package] values are "a",
\* DEFAULT values are "b", and [package] itself may be missing.
PresenceOpt(P, D) ==
  [sk \in Sections \X Keys |->
     IF sk[1] = PACKAGE /\ sk[2] \in P THEN Quoted("a")
     ELSE IF sk[1] = DEFAULTSECT /\ sk[2] \in D THEN Quoted("b")
     ELSE Absent]

DefaultVaried == {"name", "description", "app"}

PresenceFiles ==
  {MkFile("ok", TRUE, PresenceOpt(P, D)) : P \in SUBSET Keys, D \in SUBSET DefaultVaried}
  \cup {MkFile("ok", FALSE, PresenceOpt({}, D)) : D \in SUBSET DefaultVaried}

\* A complete file, and the same with description referring to version.
BaseOpt ==
  [sk \in Sections \X Keys |->
     IF sk[1] = PACKAGE /\ sk[2] # "app" THEN Quoted("a")
     ELSE IF sk = <<DEFAULTSECT, "app">> THEN Quoted("b")
     ELSE Absent]

ChainOpt == [BaseOpt EXCEPT ![<<PACKAGE, "description">>] = <<"${version}", "a">>]

VariedSlots == {<<PACKAGE, "name">>, <<PACKAGE, "description">>, <<DEFAULTSECT, "app">>}

ValueFiles ==
  {MkFile("ok", TRUE, [b EXCEPT ![sk] = v]) :
     b \in {BaseOpt, ChainOpt}, sk \in VariedSlots, v \in Values}

\* name is left to DEFAULT, whose value is varied.
FallbackOpt == [ChainOpt EXCEPT ![<<PACKAGE, "name">>] = Absent]

FallbackFiles ==
  {MkFile("ok", TRUE, [FallbackOpt EXCEPT ![<<DEFAULTSECT, "name">>] = v]) : v \in Values}

BrokenFiles == {MkFile("missing", FALSE, PresenceOpt({}, {})),
                MkFile("malformed", FALSE, PresenceOpt({}, {}))}

Files == PresenceFiles \cup ValueFiles \cup FallbackFiles \cup BrokenFiles

-----------------------------------------------------------------------------
(* str.strip('"')                                                          *)

RECURSIVE lstrip(_)
lstrip(s) == IF s # <<>> /\ Head(s) = DQ THEN lstrip(Tail(s)) ELSE s

RECURSIVE rstrip(_)
rstrip(s) == IF s # <<>> /\ s[Len(s)] = DQ THEN rstrip(SubSeq(s, 1, Len(s) - 1)) ELSE s

\* Variant: only the leading quotes go (str.lstrip).
strip_leading(s) == lstrip(s)

strip(s) == rstrip(lstrip(s))

-----------------------------------------------------------------------------
(* The parser: configparser.ConfigParser over the parsed file.             *)

Ok(v) == [ok |-> TRUE, val |-> v, err |-> ""]
Fail(e) == [ok |-> FALSE, val |-> <<>>, err |-> e]

\* _get_config_parser: ExtendedInterpolation on Python 3, the default (basic,
\* "%(key)s") interpolation otherwise.
_get_config_parser(py) ==
  IF py = 3 THEN [interpolation |-> "extended"] ELSE [interpolation |-> "basic"]

\* parser.read_file(f): the parser now holds the file's sections.
read_file(parser, f) == [interpolation |-> parser.interpolation, doc |-> f]

has_section(f, section) == section = PACKAGE /\ f.pkg

\* The raw value of an option: the section's own value, else DEFAULT's.
RawOption(f, section, key) ==
  IF section # DEFAULTSECT /\ f.opt[<<section, key>>] # Absent
  THEN f.opt[<<section, key>>]
  ELSE f.opt[<<DEFAULTSECT, key>>]

HasPlaceholder(v) == \E i \in 1..Len(v) : v[i] \in Placeholders

\* Variant: the referenced value loses its own quotes before it is embedded.
RECURSIVE _interpolate_stripped(_, _, _, _)
_interpolate_stripped(f, section, rest, depth) ==
  IF depth > MAX_INTERPOLATION_DEPTH THEN Fail("InterpolationDepthError")
  ELSE IF rest = <<>> THEN Ok(<<>>)
  ELSE LET c == Head(rest)
           v == RawOption(f, section, RefKey(c))
           sub == IF c \notin Placeholders THEN Ok(<<c>>)
                  ELSE IF v = Absent THEN Fail("InterpolationMissingOptionError")
                  ELSE IF HasPlaceholder(v)
                       THEN _interpolate_stripped(f, section, strip(v), depth + 1)
                       ELSE Ok(strip(v))
       IN IF ~sub.ok THEN sub
          ELSE LET tl == _interpolate_stripped(f, section, Tail(rest), depth)
               IN IF tl.ok THEN Ok(sub.val \o tl.val) ELSE tl

\* ExtendedInterpolation._interpolate_some: a placeholder is replaced by the
\* referenced option's raw value, itself interpolated one level deeper.
RECURSIVE _interpolate_some(_, _, _, _)
_interpolate_some(f, section, rest, depth) ==
  IF depth > MAX_INTERPOLATION_DEPTH THEN Fail("InterpolationDepthError")
  ELSE IF rest = <<>> THEN Ok(<<>>)
  ELSE LET c == Head(rest)
           v == RawOption(f, section, RefKey(c))
           sub == IF c \notin Placeholders THEN Ok(<<c>>)
                  ELSE IF v = Absent THEN Fail("InterpolationMissingOptionError")
                  ELSE IF HasPlaceholder(v)
                       THEN _interpolate_some(f, section, v, depth + 1)
                       ELSE Ok(v)
       IN IF ~sub.ok THEN sub
          ELSE LET tl == _interpolate_some(f, section, Tail(rest), depth)
               IN IF tl.ok THEN Ok(sub.val \o tl.val) ELSE tl

\* The parser's interpolation of a raw value: "${key}" is plain text for the
\* basic ("%(key)s") interpolation.
before_get(parser, section, raw) ==
  IF parser.interpolation = "extended"
  THEN _interpolate_some(parser.doc, section, raw, 1)
  ELSE Ok(raw)

\* Variant: a missing option reads as the empty string (fallback="").
ProxyGetOrEmpty(parser, section, parameter) ==
  IF section # DEFAULTSECT /\ ~has_section(parser.doc, section) THEN Fail("KeyError")
  ELSE IF RawOption(parser.doc, section, parameter) = Absent THEN Ok(<<>>)
  ELSE before_get(parser, section, RawOption(parser.doc, section, parameter))

\* parser[section][parameter] (Python 3)
ProxyGet(parser, section, parameter) ==
  IF section # DEFAULTSECT /\ ~has_section(parser.doc, section) THEN Fail("KeyError")
  ELSE IF RawOption(parser.doc, section, parameter) = Absent THEN Fail("KeyError")
  ELSE before_get(parser, section, RawOption(parser.doc, section, parameter))

\* parser.get(section, parameter) (Python 2)
LegacyGet(parser, section, parameter) ==
  IF section # DEFAULTSECT /\ ~has_section(parser.doc, section)
  THEN Fail("NoSectionError")
  ELSE IF RawOption(parser.doc, section, parameter) = Absent THEN Fail("NoOptionError")
  ELSE before_get(parser, section, RawOption(parser.doc, section, parameter))

_get_value(py, parser, section, parameter) ==
  LET value == IF py = 3 THEN ProxyGet(parser, section, parameter)
               ELSE LegacyGet(parser, section, parameter)
  IN IF value.ok THEN Ok(strip(value.val)) ELSE value

\* read_configuration up to its yield: parser.read_file(open(path)).
\* read_file came with Python 3.2: the Python 2 ConfigParser has readfp
\* only, so there the attribute lookup fails before open() is called.
\* "opened" tells whether open() returned a file object.
read_configuration(py, f) ==
  LET parser == _get_config_parser(py)
  IN IF py < 3
     THEN [ok |-> FALSE, err |-> "AttributeError", opened |-> FALSE, parser |-> parser]
     ELSE IF f.status = "missing"
          THEN [ok |-> FALSE, err |-> "FileNotFoundError", opened |-> FALSE,
                parser |-> parser]
     ELSE IF f.status = "malformed"
          THEN [ok |-> FALSE, err |-> "ParsingError", opened |-> TRUE, parser |-> parser]
     ELSE [ok |-> TRUE, err |-> "", opened |-> TRUE, parser |-> read_file(parser, f)]

-----------------------------------------------------------------------------
(* Outcomes of the public functions.                                       *)

NoMap == [k \in {} |-> <<>>]

\* One call of _get_value, as the caller saw it.
Lookup(section, parameter, r) ==
  [section |-> section, parameter |-> parameter, ok |-> r.ok, val |-> r.val, err |-> r.err]

Outcome(op, arg, read, kind, val, map, text, err, log, status) ==
  [op |-> op, arg |-> arg, read |-> read, kind |-> kind, val |-> val,
   map |-> map, text |-> text, err |-> err, log |-> log, status |-> status]

Returned(op, arg, read, val, map, text, log, status) ==
  Outcome(op, arg, read, "return", val, map, text, "", log, status)

Raised(op, arg, read, err, log, status) ==
  Outcome(op, arg, read, "raise", <<>>, NoMap, "", err, log, status)

\* Variant: a failed lookup ends the loop and the keys found so far are returned.
RECURSIVE AssignFromPartial(_, _, _, _, _)
AssignFromPartial(py, parser, i, configuration_values, log) ==
  IF i > Len(PackageKeys)
  THEN Returned("get_current_configuration_values", "", TRUE, <<>>,
                configuration_values, "", log, 0)
  ELSE LET key == PackageKeys[i]
           r == _get_value(py, parser, PACKAGE, key)
           seen == Append(log, Lookup(PACKAGE, key, r))
       IN IF r.ok
          THEN AssignFromPartial(py, parser, i + 1,
                 [k \in DOMAIN configuration_values \cup {key} |->
                    IF k = key THEN r.val ELSE configuration_values[k]],
                 seen)
          ELSE Returned("get_current_configuration_values", "", TRUE, <<>>,
                        configuration_values, "", seen, 0)

\* The four assignments of get_current_configuration_values, from the i-th on.
RECURSIVE AssignFrom(_, _, _, _, _)
AssignFrom(py, parser, i, configuration_values, log) ==
  IF i > Len(PackageKeys)
  THEN Returned("get_current_configuration_values", "", TRUE, <<>>,
                configuration_values, "", log, 0)
  ELSE LET key == PackageKeys[i]
           r == _get_value(py, parser, PACKAGE, key)
           seen == Append(log, Lookup(PACKAGE, key, r))
       IN IF r.ok
          THEN AssignFrom(py, parser, i + 1,
                 [k \in DOMAIN configuration_values \cup {key} |->
                    IF k = key THEN r.val ELSE configuration_values[k]],
                 seen)
          ELSE Raised("get_current_configuration_values", "", TRUE, r.err, seen, 0)

GetCurrentConfigurationValues(py, f) ==
  LET rc == read_configuration(py, f)
  IN IF rc.ok THEN AssignFrom(py, rc.parser, 1, NoMap, <<>>)
     ELSE Raised("get_current_configuration_values", "", FALSE, rc.err, <<>>, 0)

\* Variant: app is looked up in [package].
GetAppNameFromPackage(py, f) ==
  LET rc == read_configuration(py, f)
      app_name == _get_value(py, rc.parser, PACKAGE, "app")
      log == <<Lookup(PACKAGE, "app", app_name)>>
  IN IF ~rc.ok THEN Raised("get_app_name", "", FALSE, rc.err, <<>>, 0)
     ELSE IF app_name.ok
          THEN Returned("get_app_name", "", TRUE, app_name.val, NoMap, "", log, 0)
          ELSE Raised("get_app_name", "", TRUE, app_name.err, log, 0)

GetAppName(py, f) ==
  LET rc == read_configuration(py, f)
      app_name == _get_value(py, rc.parser, DEFAULTSECT, "app")
      log == <<Lookup(DEFAULTSECT, "app", app_name)>>
  IN IF ~rc.ok THEN Raised("get_app_name", "", FALSE, rc.err, <<>>, 0)
     ELSE IF app_name.ok
          THEN Returned("get_app_name", "", TRUE, app_name.val, NoMap, "", log, 0)
          ELSE Raised("get_app_name", "", TRUE, app_name.err, log, 0)

\* Variant: os.environ.get(variable_name, "")
GetEnvironmentValueOrEmpty(env, variable_name) ==
  Returned("get_environment_value", variable_name, FALSE, <<>>, NoMap,
           IF env[variable_name] = Unset THEN "" ELSE env[variable_name], <<>>, 0)

\* os.environ[variable_name]
GetEnvironmentValue(env, variable_name) ==
  IF env[variable_name] = Unset
  THEN Raised("get_environment_value", variable_name, FALSE, "KeyError", <<>>, 0)
  ELSE Returned("get_environment_value", variable_name, FALSE, <<>>, NoMap,
                env[variable_name], <<>>, 0)

\* Variant: the value is stored under every name.
SetEnvironAll(env, variable_name, variable_value) ==
  [n \in DOMAIN env |-> variable_value]

\* os.environ[variable_name] = variable_value
SetEnviron(env, variable_name, variable_value) ==
  [env EXCEPT ![variable_name] = variable_value]

\* subprocess.call ignores the exit status; subprocess.run(check=True) raises
\* CalledProcessError on a nonzero one.
RunConsoleCommand(py, status) ==
  IF py < 3
  THEN Returned("run_console_command", "", FALSE, <<>>, NoMap, "", <<>>, status)
  ELSE IF status # 0
       THEN Raised("run_console_command", "", FALSE, "CalledProcessError", <<>>, status)
       ELSE Returned("run_console_command", "", FALSE, <<>>, NoMap, "", <<>>, status)

\* The file object of open(path) is never closed by the code: it stays open
\* until the interpreter finalizes it, which may be before the call is over
\* (collected) or any time later (Finalize).
HandlesAfter(n, opened, collected) ==
  IF opened /\ ~collected THEN n + 1 ELSE n

-----------------------------------------------------------------------------
(* The state machine.                                                      *)

NoCall == Outcome("none", "", FALSE, "none", <<>>, NoMap, "", "", <<>>, 0)

\* The whole module: any runtime, any file, any inherited environment.
Init ==
  /\ major \in Pythons
  /\ file \in Files
  /\ environ \in [Names -> Vals \cup {Unset}]
  /\ lastSet = [n \in Names |-> Unset]
  /\ handles = 0
  /\ last = NoCall

\* The configuration reader alone: it never touches the environment.
ConfigInit ==
  /\ major \in Pythons
  /\ file \in Files
  /\ environ = [n \in Names |-> Unset]
  /\ lastSet = [n \in Names |-> Unset]
  /\ handles = 0
  /\ last = NoCall

\* The environment helpers and the command runner alone: they read no file.
EnvInit ==
  /\ major \in Pythons
  /\ file = MkFile("ok", TRUE, BaseOpt)
  /\ environ \in [Names -> Vals \cup {Unset}]
  /\ lastSet = [n \in Names |-> Unset]
  /\ handles = 0
  /\ last = NoCall

get_current_configuration_values ==
  \E collected \in BOOLEAN :
    /\ HandlesAfter(handles, read_configuration(major, file).opened, collected) <= MaxHandles
    /\ handles' = HandlesAfter(handles, read_configuration(major, file).opened, collected)
    /\ last' = GetCurrentConfigurationValues(major, file)
    /\ UNCHANGED <<major, file, environ, lastSet>>

get_app_name ==
  \E collected \in BOOLEAN :
    /\ HandlesAfter(handles, read_configuration(major, file).opened, collected) <= MaxHandles
    /\ handles' = HandlesAfter(handles, read_configuration(major, file).opened, collected)
    /\ last' = GetAppName(major, file)
    /\ UNCHANGED <<major, file, environ, lastSet>>

get_environment_value ==
  \E variable_name \in Names :
    /\ last' = GetEnvironmentValue(environ, variable_name)
    /\ UNCHANGED <<major, file, environ, lastSet, handles>>

set_environment_value ==
  \E variable_name \in Names, variable_value \in Vals :
    /\ environ' = SetEnviron(environ, variable_name, variable_value)
    /\ lastSet' = [lastSet EXCEPT ![variable_name] = variable_value]
    /\ last' = Returned("set_environment_value", variable_name, FALSE, <<>>, NoMap,
                        variable_value, <<>>, 0)
    /\ UNCHANGED <<major, file, handles>>

run_console_command ==
  \E status \in 0..MaxExit :
    /\ last' = RunConsoleCommand(major, status)
    /\ UNCHANGED <<major, file, environ, lastSet, handles>>

Finalize ==
  /\ handles > 0
  /\ handles' = handles - 1
  /\ UNCHANGED <<major, file, environ, lastSet, last>>

ConfigNext ==
  \/ get_current_configuration_values
  \/ get_app_name
  \/ Finalize

EnvNext ==
  \/ get_environment_value
  \/ set_environment_value
  \/ run_console_command

Next == ConfigNext \/ EnvNext

Spec == Init /\ [][Next]_vars

\* The two halves of the module share no state, so each claim is checked
\* under the half it is about.
ConfigSpec == ConfigInit /\ [][ConfigNext]_vars

EnvSpec == EnvInit /\ [][EnvNext]_vars

-----------------------------------------------------------------------------
(* What the properties are stated with: the file as written, read          *)
(* independently of the parser operators above.                            *)

SummaryKeys == {"name", "version", "description", "homepage"}
LookupErrors == {"KeyError", "NoSectionError", "NoOptionError"}

InSection(section, key) == file.opt[<<section, key>>] # Absent
InDefault(key) == file.opt[<<DEFAULTSECT, key>>] # Absent
SectionExists(section) == section = DEFAULTSECT \/ file.pkg

\* The value the file gives the key: the section's, else the one of DEFAULT.
Stored(section, key) ==
  IF InSection(section, key) THEN file.opt[<<section, key>>]
  ELSE file.opt[<<DEFAULTSECT, key>>]

Unresolved == "<unresolved>"

\* v with every placeholder replaced by the stored text of the key it names,
\* itself expanded, quotes included; a reference chain longer than the number
\* of keys is circular.
RECURSIVE Expand(_, _, _)
Expand(section, v, fuel) ==
  IF v = <<>> THEN <<>>
  ELSE LET c == Head(v)
           first == IF c \notin Placeholders THEN <<c>>
                    ELSE IF fuel = 0 \/ Stored(section, RefKey(c)) = Absent
                         THEN <<Unresolved>>
                         ELSE Expand(section, Stored(section, RefKey(c)), fuel - 1)
       IN first \o Expand(section, Tail(v), fuel)

Text(section, key) == Expand(section, Stored(section, key), Cardinality(Keys))

Contains(s, c) == \E i \in 1..Len(s) : s[i] = c

Resolvable(section, key) == ~Contains(Text(section, key), Unresolved)

QuotesOnly(s) == \A i \in 1..Len(s) : s[i] = DQ

\* r is v without its leading and trailing double quotes: the interior is kept.
QuotesRemoved(v, r) ==
  /\ r = <<>> \/ (r[1] # DQ /\ r[Len(r)] # DQ)
  /\ \E i \in 0..Len(v) : \E j \in i..Len(v) :
       /\ r = SubSeq(v, i + 1, j)
       /\ QuotesOnly(SubSeq(v, 1, i))
       /\ QuotesOnly(SubSeq(v, j + 1, Len(v)))

Wrapped(v) == Len(v) >= 2 /\ v[1] = DQ /\ v[Len(v)] = DQ

Summary == last.op = "get_current_configuration_values" /\ last.read
AppName == last.op = "get_app_name" /\ last.read
Lookups == {last.log[i] : i \in 1..Len(last.log)}

-----------------------------------------------------------------------------
-----------------------------------------------------------------------------
\* C2 as stated: a lookup of a key that its section does not define fails
\* with a lookup error, whatever DEFAULT defines.
C2_NoDefaultFallback ==
  last.read =>
    \A e \in Lookups :
      ~InSection(e.section, e.parameter) => (~e.ok /\ e.err \in LookupErrors)

\* C2, amended: a lookup of a key defined neither in its section nor in
\* DEFAULT (or in a section the file does not have) fails with a lookup error,
\* returns no value, never the empty string, and the call raises that error;
\* a key that only DEFAULT defines is answered with the value of DEFAULT.
C2_MissingKeyRaises ==
  last.read =>
    \A e \in Lookups :
      /\ (~SectionExists(e.section) \/ Stored(e.section, e.parameter) = Absent)
           => /\ ~e.ok
              /\ e.err \in LookupErrors
              /\ last.kind = "raise"
              /\ last.err = e.err
      /\ (/\ SectionExists(e.section)
          /\ ~InSection(e.section, e.parameter)
          /\ InDefault(e.parameter)
          /\ Resolvable(e.section, e.parameter))
           => /\ e.ok
              /\ Stored(e.section, e.parameter) = file.opt[<<DEFAULTSECT, e.parameter>>]
              /\ QuotesRemoved(Text(e.section, e.parameter), e.val)

\* A key nobody defines was looked up and the call raised.
C2_Witness ==
  /\ Summary
  /\ file.pkg
  /\ ~InSection(PACKAGE, "name")
  /\ ~InDefault("name")
  /\ last.kind = "raise"
  /\ last.err = "KeyError"
  /\ Len(last.log) = 1

-----------------------------------------------------------------------------
\* C3 as stated: a stored value wrapped in double quotes comes back without
\* exactly one leading and one trailing quote, and any other value comes back
\* unchanged (values with placeholders, and the lone quote, left aside).
C3_OnePairOnly ==
  last.read =>
    \A e \in Lookups :
      LET v == Stored(e.section, e.parameter)
      IN (e.ok /\ ~HasPlaceholder(v) /\ v # <<DQ>>)
           => e.val = IF Wrapped(v) THEN SubSeq(v, 2, Len(v) - 1) ELSE v

\* C3, amended: a lookup returns the stored text (placeholders resolved)
\* without any of its leading and trailing double quotes, interior ones kept;
\* so a value in one pair of quotes loses exactly those two, and a value with
\* no quote at either end comes back unchanged.
C3_AllEdgeQuotesStripped ==
  last.read =>
    \A e \in Lookups :
      LET t == Text(e.section, e.parameter)
      IN e.ok =>
           /\ QuotesRemoved(t, e.val)
           /\ (Len(t) >= 3 /\ Wrapped(t) /\ t[2] # DQ /\ t[Len(t) - 1] # DQ)
                => e.val = SubSeq(t, 2, Len(t) - 1)
           /\ (t = <<>> \/ (t[1] # DQ /\ t[Len(t)] # DQ)) => e.val = t

\* A value quoted at one end only was looked up and lost that quote.
C3_Witness ==
  /\ AppName
  /\ file.opt[<<DEFAULTSECT, "app">>] = <<DQ, "a">>
  /\ last.kind = "return"
  /\ last.val = <<"a">>

-----------------------------------------------------------------------------
\* C4: no file handle opened by read_configuration remains open after the
\* calls made so far.
C4_HandlesReleased == handles = 0

-----------------------------------------------------------------------------
-----------------------------------------------------------------------------
(* The order of the summary's lookups.                                     *)

SummaryOrder == <<"name", "version", "description", "homepage">>

\* The lookups made are the first n of the order, in order, all in [package].
InOrder ==
  \A i \in 1..Len(last.log) :
    /\ i <= Len(SummaryOrder)
    /\ last.log[i].section = PACKAGE
    /\ last.log[i].parameter = SummaryOrder[i]

First(S) == CHOOSE i \in S : \A j \in S : i <= j

\* Positions of the keys [package] does not define.
MissingFromPackage == {i \in 1..Len(SummaryOrder) : ~InSection(PACKAGE, SummaryOrder[i])}

\* Positions of the keys no lookup can answer: defined neither in [package]
\* nor in DEFAULT, or holding a placeholder that does not resolve.
Unanswerable ==
  {i \in 1..Len(SummaryOrder) :
     \/ ~file.pkg
     \/ Stored(PACKAGE, SummaryOrder[i]) = Absent
     \/ ~Resolvable(PACKAGE, SummaryOrder[i])}

-----------------------------------------------------------------------------
(* Interpolation.                                                          *)

\* What a lookup of the key itself returns.
Answer(section, key) ==
  _get_value(major, read_configuration(major, file).parser, section, key)

\* v with every placeholder replaced by the answer of a lookup of its key.
RECURSIVE EmbedAnswers(_, _)
EmbedAnswers(section, v) ==
  IF v = <<>> THEN <<>>
  ELSE (IF Head(v) \in Placeholders
        THEN Answer(section, RefKey(Head(v))).val
        ELSE <<Head(v)>>) \o EmbedAnswers(section, Tail(v))

\* C10 as stated: a value that refers to another key comes back with the
\* placeholder replaced by what a lookup of that key returns, so without the
\* quotes of the referenced value.
C10_EmbedsLookupResult ==
  last.read =>
    \A e \in Lookups :
      LET v == Stored(e.section, e.parameter)
      IN (e.ok /\ HasPlaceholder(v))
           => QuotesRemoved(EmbedAnswers(e.section, v), e.val)

\* C10, amended: a placeholder is replaced by the referenced key's stored
\* text, its own placeholders resolved and its quotes kept; only the
\* leading and trailing quotes of the whole result are removed.
C10_EmbedsStoredText ==
  last.read =>
    \A e \in Lookups :
      (e.ok /\ HasPlaceholder(Stored(e.section, e.parameter)))
        => /\ Resolvable(e.section, e.parameter)
           /\ QuotesRemoved(Text(e.section, e.parameter), e.val)

\* name = a${version}a with version = "a": the quotes of version are in the
\* answer.
C10_Witness ==
  /\ Summary
  /\ file.opt[<<PACKAGE, "name">>] = <<"a", "${version}", "a">>
  /\ file.opt[<<PACKAGE, "version">>] = Quoted("a")
  /\ last.kind = "return"
  /\ last.map["name"] = <<"a", DQ, "a", DQ, "a">>

-----------------------------------------------------------------------------
\* C5: run_console_command returns normally when the command exits with
\* status 0 and raises an execution error when it exits with any other
\* status, on the legacy and on the modern runtime alike.
C5_NonzeroExitRaises ==
  last.op = "run_console_command" =>
    IF last.status = 0 THEN last.kind = "return"
    ELSE last.kind = "raise" /\ last.err = "CalledProcessError"

-----------------------------------------------------------------------------
\* C6: get_environment_value(n) returns the value of the most recent
\* set_environment_value(n, v) for that name, whatever was set for other
\* names in between and whatever the environment held before.
C6_GetReturnsLastSet ==
  (last.op = "get_environment_value" /\ lastSet[last.arg] # Unset)
    => /\ last.kind = "return"
       /\ last.text = lastSet[last.arg]

\* A was set to y, B to something else, and A was read back as y.
C6_Witness ==
  /\ last.op = "get_environment_value"
  /\ last.arg = "A"
  /\ lastSet["A"] = "y"
  /\ lastSet["B"] = "x"
  /\ last.kind = "return"
  /\ last.text = "y"

-----------------------------------------------------------------------------
\* C7: get_environment_value(n) of a name that is not set raises the
\* not-found error, returns no value, and leaves the environment as it was.
C7_UnsetRaises ==
  [][(last'.op = "get_environment_value" /\ environ[last'.arg] = Unset)
       => /\ last'.kind = "raise"
          /\ last'.err = "KeyError"
          /\ last'.text = ""
          /\ environ' = environ]_vars

\* The read of the unset name B raised, and B is still unset.
C7_Witness ==
  /\ last.op = "get_environment_value"
  /\ last.arg = "B"
  /\ last.kind = "raise"
  /\ last.err = "KeyError"
  /\ environ["B"] = Unset
  /\ environ["A"] # Unset

====
